---- MODULE Spec2Model ----
(***************************************************************************)
(* Model of src/src/pages/DashboardOverview.tsx: the DashboardOverview     *)
(* component, its one-shot data loader (loadStats), the values derived in  *)
(* the component body on every render, and what the JSX shows of them.     *)
(*                                                                         *)
(* Conventions of the model                                                *)
(*  - an optional string field is a sequence; the empty sequence <<>>      *)
(*    stands for a falsy value of the field (undefined or '');             *)
(*  - an ISO date string is <<yyyy, mm, dd>> (date only) or                *)
(*    <<yyyy, mm, dd, hh>> (date and time), mm in 1..12;                   *)
(*  - a JS Date is the record of its local calendar fields                 *)
(*    [year, month (0..11), date, hours]; getTime counts hours, not        *)
(*    milliseconds, since 1970-01-01T00:00 local time;                     *)
(*  - a reference (URL) and a record id are sequences of one-character     *)
(*    strings;                                                             *)
(*  - an optional number (preis) is <<>> or <<n>>.                         *)
(***************************************************************************)
EXTENDS Integers, Sequences, FiniteSets, TLC

VARIABLES
    dozenten,     \* useState<Dozenten[]>     (line 51)
    teilnehmer,   \* useState<Teilnehmer[]>   (line 52)
    raeume,       \* useState<Raeume[]>       (line 53)
    kurse,        \* useState<Kurse[]>        (line 54)
    anmeldungen,  \* useState<Anmeldungen[]>  (line 55)
    loading,      \* useState(true)           (line 56)
    pc,           \* position of loadStats
    fetch,        \* state of each of the five fetch promises
    result,       \* the collection each resolved fetch delivered
    errorLog,     \* what console.error has logged
    batched,      \* whether the renderer batches the setters of one task
    now,          \* the value of new Date() at the last render
    vm,           \* the values derived in the component body at the last render
    view          \* what the JSX of the last render shows

vars == <<dozenten, teilnehmer, raeume, kurse, anmeldungen, loading, pc,
          fetch, result, errorLog, batched, now, vm, view>>

----------------------------------------------------------------------------
(* Bounds of the model *)

MaxKurse == 2
MaxAnmZahlung == 3
MaxAnmUmsatz == 2
MaxAnmMonat == 1
MaxAnmRecent == 6
MaxRef == 2
MaxIdLen == 1
MaxUrlLen == 2
MaxFetched == 1

----------------------------------------------------------------------------
(* Calendar: JS Date and date-fns *)

IsLeap(y) == (y % 4 = 0 /\ y % 100 # 0) \/ y % 400 = 0

DaysInMonth(y, m) ==
    IF m = 1 THEN (IF IsLeap(y) THEN 29 ELSE 28)
    ELSE IF m \in {3, 5, 8, 10} THEN 30 ELSE 31

RECURSIVE DaysBeforeMonth(_, _)
DaysBeforeMonth(y, m) ==
    IF m = 0 THEN 0 ELSE DaysBeforeMonth(y, m - 1) + DaysInMonth(y, m - 1)

LeapsBefore(y) == ((y - 1) \div 4) - ((y - 1) \div 100) + ((y - 1) \div 400)

DaysFromEpoch(y, m, d) ==
    365 * (y - 1970) + (LeapsBefore(y) - LeapsBefore(1970))
        + DaysBeforeMonth(y, m) + (d - 1)

\* Date.prototype.getTime, in hours
getTime(d) == DaysFromEpoch(d.year, d.month, d.date) * 24 + d.hours

\* A day of the month past the month's end rolls over into the next month.
RECURSIVE NormalizeDay(_, _, _, _)
NormalizeDay(y, m, d, h) ==
    IF d > DaysInMonth(y, m)
    THEN NormalizeDay(y + ((m + 1) \div 12), (m + 1) % 12, d - DaysInMonth(y, m), h)
    ELSE [year |-> y, month |-> m, date |-> d, hours |-> h]

\* MakeDay of ECMAScript: a month outside 0..11 carries into the year.
MakeDate(y, m, d, h) == NormalizeDay(y + (m \div 12), m % 12, d, h)

\* Date.prototype.setMonth(m): the day of the month is kept, then normalised.
setMonth(d, m) == MakeDate(d.year, m, d.date, d.hours)

\* date-fns parseISO of a valid ISO string
parseISO(s) ==
    [year |-> s[1], month |-> s[2] - 1, date |-> s[3],
     hours |-> IF Len(s) > 3 THEN s[4] ELSE 0]

\* date-fns startOfDay
startOfDay(d) == [d EXCEPT !.hours = 0]

\* date-fns isAfter and isBefore (isBeforeOrEqual: the boundary moved)
isAfter(a, b) == getTime(a) > getTime(b)

isBeforeOrEqual(a, b) == getTime(a) <= getTime(b)

isBefore(a, b) == getTime(a) < getTime(b)

----------------------------------------------------------------------------
(* Sequence helpers *)

SeqsUpTo(S, n) == UNION {[1..k -> S] : k \in 0..n}

\* Array.prototype.slice(0, n)
Slice(s, n) == IF Len(s) <= n THEN s ELSE SubSeq(s, 1, n)

----------------------------------------------------------------------------
(* Active and upcoming courses (lines 82-94) *)

Truthy(field) == field # <<>>

IsAktiv(k, today) ==
    IF ~Truthy(k.fields.startdatum) THEN FALSE
    ELSE IF Truthy(k.fields.enddatum)
         THEN ~isAfter(parseISO(k.fields.startdatum), today)
              /\ ~isBefore(parseISO(k.fields.enddatum), today)
         ELSE ~isAfter(parseISO(k.fields.startdatum), today)

IsKommend(k, today) ==
    IF Truthy(k.fields.startdatum)
    THEN isAfter(parseISO(k.fields.startdatum), today)
    ELSE FALSE

aktiveKurse(ks, today) == SelectSeq(ks, LAMBDA k : IsAktiv(k, today))

kommendKurse(ks, today) == SelectSeq(ks, LAMBDA k : IsKommend(k, today))

----------------------------------------------------------------------------
(* Payment aggregation (lines 96-104) *)

\* The JS values a bezahlt field is given in the model, by name.
FalsyValues == {"undefined", "false", "0"}

JsTruthy(v) == v \notin FalsyValues

\* a.fields.bezahlt === true (PaidTruthy: compared by truthiness instead)
PaidTruthy(a) == JsTruthy(a.fields.bezahlt)

PaidStrict(a) == a.fields.bezahlt = "true"

bezahltCount(as) == Len(SelectSeq(as, PaidStrict))

offenCount(as) == Len(SelectSeq(as, LAMBDA a : ~JsTruthy(a.fields.bezahlt)))

\* String.prototype.includes
includes(str, sub) ==
    \E i \in 0..(Len(str) - Len(sub)) : SubSeq(str, i + 1, i + Len(sub)) = sub

\* Array.prototype.find, as the index of the first of the hits (0: undefined)
FindIndex(hits) ==
    IF hits = {} THEN 0 ELSE CHOOSE i \in hits : \A j \in hits : i <= j

\* kurse.find(k => a.fields.kurs && a.fields.kurs.includes(k.record_id))
KursRecordIndex(a, ks) ==
    FindIndex({i \in DOMAIN ks : Truthy(a.fields.kurs)
                                    /\ includes(a.fields.kurs, ks[i].record_id)})

\* kursRecord?.fields.preis ?? 0
PreisOf(a, ks) ==
    LET i == KursRecordIndex(a, ks)
    IN  IF i = 0 THEN 0
        ELSE IF ks[i].fields.preis = <<>> THEN 0 ELSE ks[i].fields.preis[1]

RECURSIVE SumPreis(_, _)
SumPreis(as, ks) ==
    IF as = <<>> THEN 0 ELSE PreisOf(Head(as), ks) + SumPreis(Tail(as), ks)

gesamtEinnahmen(as, ks) ==
    SumPreis(SelectSeq(as, LAMBDA a : JsTruthy(a.fields.bezahlt)), ks)

----------------------------------------------------------------------------
(* Monthly histogram (lines 106-120) *)

LastMonthOffset == 5

\* format(d, 'MMM', { locale: de })
MonthLabel(m) ==
    <<"Jan", "Feb", "Mrz", "Apr", "Mai", "Jun",
      "Jul", "Aug", "Sep", "Okt", "Nov", "Dez">>[m + 1]

\* const d = new Date(); d.setMonth(d.getMonth() - i)
BucketDate(n, i) == setMonth(n, n.month - i)

InBucket(a, d) ==
    IF ~Truthy(a.fields.anmeldedatum) THEN FALSE
    ELSE parseISO(a.fields.anmeldedatum).year = d.year
         /\ parseISO(a.fields.anmeldedatum).month = d.month

monthlyData(as, n) ==
    [j \in 1..(LastMonthOffset + 1) |->
        LET d == BucketDate(n, LastMonthOffset + 1 - j)
        IN  [monat |-> MonthLabel(d.month),
             anmeldungen |-> Len(SelectSeq(as, LAMBDA a : InBucket(a, d)))]]

----------------------------------------------------------------------------
(* Recent registrations (lines 122-129) *)

RecentLimit == 5

\* a.fields.anmeldedatum ? parseISO(a.fields.anmeldedatum).getTime() : 0
SortKey(a) ==
    IF Truthy(a.fields.anmeldedatum)
    THEN getTime(parseISO(a.fields.anmeldedatum)) ELSE 0

\* Array.prototype.sort is stable: under the comparator db - da an element
\* goes behind every element already placed whose key is not smaller.
RECURSIVE InsertDesc(_, _)
InsertDesc(x, s) ==
    IF s = <<>> THEN <<x>>
    ELSE IF SortKey(Head(s)) >= SortKey(x)
         THEN <<Head(s)>> \o InsertDesc(x, Tail(s))
         ELSE <<x>> \o s

RECURSIVE SortDesc(_)
SortDesc(s) ==
    IF s = <<>> THEN <<>>
    ELSE InsertDesc(s[Len(s)], SortDesc(SubSeq(s, 1, Len(s) - 1)))

recentAnmeldungen(as) == Slice(SortDesc(as), RecentLimit)

\* The array the state slot holds after the render: sort() works in place,
\* here on the copy [...anmeldungen], so the slot's array is as it was
\* (SortedInPlace: anmeldungen.sort(...) without the copy).
SortedInPlace(as) == SortDesc(as)

ArrayAfterSort(as) == as

----------------------------------------------------------------------------
(* Reference resolution (lines 131-141) *)

\* The em dash placeholder
EmDash == "--"

\* A field that is undefined (or null)
Undefined == "undefined"

\* url.split('/').pop() (WholeUrl: the reference taken as the id)
WholeUrl(url) == url

LastSegment(url) ==
    LET cuts == {i \in 1..Len(url) : url[i] = "/"}
    IN  IF cuts = {} THEN url
        ELSE SubSeq(url, (CHOOSE i \in cuts : \A j \in cuts : j <= i) + 1, Len(url))

getTeilnehmerName(ts, url) ==
    IF ~Truthy(url) THEN EmDash
    ELSE LET i == FindIndex({j \in DOMAIN ts : ts[j].record_id = LastSegment(url)})
         IN  IF i = 0 THEN EmDash
             ELSE IF ts[i].fields.name = Undefined THEN EmDash
                  ELSE ts[i].fields.name

getKursTitle(ks, url) ==
    IF ~Truthy(url) THEN EmDash
    ELSE LET i == FindIndex({j \in DOMAIN ks : ks[j].record_id = LastSegment(url)})
         IN  IF i = 0 THEN EmDash
             ELSE IF ks[i].fields.titel = Undefined THEN EmDash
                  ELSE ks[i].fields.titel

----------------------------------------------------------------------------
(* One render: the component body and its JSX (lines 82-342) *)

Derive(ks, as, n) ==
    [aktiveKurse       |-> aktiveKurse(ks, startOfDay(n)),
     kommendKurse      |-> kommendKurse(ks, startOfDay(n)),
     bezahltCount      |-> bezahltCount(as),
     offenCount        |-> offenCount(as),
     gesamtEinnahmen   |-> gesamtEinnahmen(as, ks),
     monthlyData       |-> monthlyData(as, n),
     recentAnmeldungen |-> recentAnmeldungen(as)]

\* A value on screen, and a loading placeholder on screen
Shown(v) == [val |-> v]

Placeholder(text) == [ph |-> text]

\* loading ? placeholder : value
WhileLoading(l, text, v) == IF l THEN Placeholder(text) ELSE Shown(v)

\* Math.round((bezahltCount / anmeldungen.length) * 100)
Prozent(count, total) == (200 * count + total) \div (2 * total)

\* format(parseISO(a.fields.anmeldedatum), 'dd.MM.yyyy')
FormatDatum(s) == <<parseISO(s).date, parseISO(s).month + 1, parseISO(s).year>>

\* One row of the list "Neueste Anmeldungen" (lines 309-337)
RecentRow(a, ts, ks) ==
    [key    |-> a.record_id,
     name   |-> getTeilnehmerName(ts, a.fields.teilnehmer),
     titel  |-> getKursTitle(ks, a.fields.kurs),
     datum  |-> IF Truthy(a.fields.anmeldedatum)
                THEN FormatDatum(a.fields.anmeldedatum) ELSE <<>>,
     status |-> IF JsTruthy(a.fields.bezahlt) THEN "Bezahlt" ELSE "Offen"]

\* The list has no loading condition: it is rendered when it is not empty.
RecentList(l, m, ts, ks) ==
    [i \in 1..Len(m.recentAnmeldungen) |-> RecentRow(m.recentAnmeldungen[i], ts, ks)]

Present(l, ds, ts, rs, ks, as, m) ==
    [subtitle       |-> WhileLoading(l, "Daten werden geladen", <<Len(ks), Len(ts), Len(as)>>),
     heroAktiv      |-> WhileLoading(l, EmDash, Len(m.aktiveKurse)),
     heroKommend    |-> WhileLoading(l, EmDash, Len(m.kommendKurse)),
     heroOffen      |-> WhileLoading(l, EmDash, m.offenCount),
     heroEinnahmen  |-> WhileLoading(l, EmDash, m.gesamtEinnahmen),
     kpiKurse       |-> WhileLoading(l, "...", Len(ks)),
     kpiTeilnehmer  |-> WhileLoading(l, "...", Len(ts)),
     kpiDozenten    |-> WhileLoading(l, "...", Len(ds)),
     kpiRaeume      |-> WhileLoading(l, "...", Len(rs)),
     kpiAnmeldungen |-> WhileLoading(l, "...", Len(as)),
     kpiBezahlt     |-> WhileLoading(l, EmDash, m.bezahltCount),
     chart          |-> WhileLoading(l, "Laedt", m.monthlyData),
     zahlung        |-> WhileLoading(l, "Laedt",
                           [bezahlt    |-> m.bezahltCount,
                            offen      |-> m.offenCount,
                            prozent    |-> IF Len(as) > 0
                                           THEN <<Prozent(m.bezahltCount, Len(as))>>
                                           ELSE <<>>,
                            einnahmen  |-> m.gesamtEinnahmen]),
     recent         |-> RecentList(l, m, ts, ks)]

\* The render that follows a commit of the state (l, ds, ts, rs, ks, as).
Rendered(l, ds, ts, rs, ks, as) ==
    /\ vm' = Derive(ks, as, now)
    /\ view' = Present(l, ds, ts, rs, ks, as, vm')
    /\ now' = now

\* The render before any data is there: empty collections, loading.
FirstVm(n) == Derive(<<>>, <<>>, n)

FirstView(n) == Present(TRUE, <<>>, <<>>, <<>>, <<>>, <<>>, FirstVm(n))

----------------------------------------------------------------------------
(* The data loader (lines 58-80) *)

Fetches == {"getDozenten", "getTeilnehmer", "getRaeume", "getKurse", "getAnmeldungen"}

\* Record ids of the model's canonical records: a, aa, aaa, ...
IdOf(i) == [j \in 1..i |-> "a"]

Kurs(id, titel, preis, start, end) ==
    [record_id |-> id,
     fields |-> [titel |-> titel, preis |-> preis, startdatum |-> start, enddatum |-> end]]

Person(id, name) == [record_id |-> id, fields |-> [name |-> name]]

Anmeldung(id, tn, kurs, datum, bezahlt) ==
    [record_id |-> id,
     fields |-> [teilnehmer |-> tn, kurs |-> kurs, anmeldedatum |-> datum, bezahlt |-> bezahlt]]

\* What a fetch may deliver: the first k canonical records of its collection.
CanonicalRecord(f, i) ==
    CASE f = "getKurse" -> Kurs(IdOf(i), "Yoga", <<10>>, <<2024, 1, 1>>, <<>>)
      [] f = "getAnmeldungen" ->
            Anmeldung(IdOf(i), <<"t", "/">> \o IdOf(i), <<"k", "/">> \o IdOf(i),
                      <<2024, 1, 1>>, "true")
      [] OTHER -> Person(IdOf(i), "Ann")

Responses(f) == {[i \in 1..k |-> CanonicalRecord(f, i)] : k \in 0..MaxFetched}

\* Promise.all over the five fetches (PromiseAllSettled: Promise.allSettled in its place)
PromiseAllSettled(fs) ==
    IF \A f \in Fetches : fs[f] \in {"resolved", "rejected"} THEN "fulfilled"
    ELSE "pending"

PromiseAll(fs) ==
    IF \E f \in Fetches : fs[f] = "rejected" THEN "rejected"
    ELSE IF \A f \in Fetches : fs[f] = "resolved" THEN "fulfilled"
    ELSE "pending"

\* Where control goes after the catch block (AfterCatchNoFinally: setLoading
\* inside the try block instead of a finally block)
AfterCatchNoFinally == "done"

AfterCatch == "finally"

LoaderNow == [year |-> 2024, month |-> 0, date |-> 15, hours |-> 9]

Init ==
    /\ dozenten = <<>> /\ teilnehmer = <<>> /\ raeume = <<>>
    /\ kurse = <<>> /\ anmeldungen = <<>>
    /\ loading = TRUE
    /\ pc = "mounted"
    /\ fetch = [f \in Fetches |-> "idle"]
    /\ result = [f \in Fetches |-> <<>>]
    /\ errorLog = <<>>
    /\ batched \in BOOLEAN
    /\ now = LoaderNow
    /\ vm = FirstVm(now)
    /\ view = FirstView(now)

\* useEffect(() => { ... loadStats() }, []): the five fetches are issued.
Effect ==
    /\ pc = "mounted"
    /\ fetch' = [f \in Fetches |-> "pending"]
    /\ pc' = "await"
    /\ UNCHANGED <<dozenten, teilnehmer, raeume, kurse, anmeldungen, loading,
                   result, errorLog, batched, now, vm, view>>

\* A fetch settles while loadStats is suspended, or after it has finished.
CanSettle(f) ==
    /\ fetch[f] = "pending"
    /\ \/ pc = "await" /\ PromiseAll(fetch) = "pending"
       \/ pc = "done"

FetchResolve(f) ==
    /\ CanSettle(f)
    /\ \E data \in Responses(f) :
          /\ fetch' = [fetch EXCEPT ![f] = "resolved"]
          /\ result' = [result EXCEPT ![f] = data]
    /\ UNCHANGED <<dozenten, teilnehmer, raeume, kurse, anmeldungen, loading,
                   pc, errorLog, batched, now, vm, view>>

FetchReject(f) ==
    /\ CanSettle(f)
    /\ fetch' = [fetch EXCEPT ![f] = "rejected"]
    /\ UNCHANGED <<dozenten, teilnehmer, raeume, kurse, anmeldungen, loading,
                   pc, result, errorLog, batched, now, vm, view>>

\* Lines 68-72 and 76 in one task under a batching renderer: one commit.
SuccessBatched ==
    /\ pc = "await" /\ PromiseAll(fetch) = "fulfilled" /\ batched
    /\ dozenten' = result["getDozenten"]
    /\ teilnehmer' = result["getTeilnehmer"]
    /\ raeume' = result["getRaeume"]
    /\ kurse' = result["getKurse"]
    /\ anmeldungen' = ArrayAfterSort(result["getAnmeldungen"])
    /\ loading' = FALSE
    /\ pc' = "done"
    /\ Rendered(loading', dozenten', teilnehmer', raeume', kurse', result["getAnmeldungen"])
    /\ UNCHANGED <<fetch, result, errorLog, batched>>

\* Lines 68-72 without batching: every setter commits and renders at once.
SetDozenten ==
    /\ pc = "await" /\ PromiseAll(fetch) = "fulfilled" /\ ~batched
    /\ dozenten' = result["getDozenten"]
    /\ pc' = "setTeilnehmer"
    /\ anmeldungen' = ArrayAfterSort(anmeldungen)
    /\ Rendered(loading, dozenten', teilnehmer, raeume, kurse, anmeldungen)
    /\ UNCHANGED <<teilnehmer, raeume, kurse, loading, fetch, result, errorLog, batched>>

SetTeilnehmer ==
    /\ pc = "setTeilnehmer"
    /\ teilnehmer' = result["getTeilnehmer"]
    /\ pc' = "setRaeume"
    /\ anmeldungen' = ArrayAfterSort(anmeldungen)
    /\ Rendered(loading, dozenten, teilnehmer', raeume, kurse, anmeldungen)
    /\ UNCHANGED <<dozenten, raeume, kurse, loading, fetch, result, errorLog, batched>>

SetRaeume ==
    /\ pc = "setRaeume"
    /\ raeume' = result["getRaeume"]
    /\ pc' = "setKurse"
    /\ anmeldungen' = ArrayAfterSort(anmeldungen)
    /\ Rendered(loading, dozenten, teilnehmer, raeume', kurse, anmeldungen)
    /\ UNCHANGED <<dozenten, teilnehmer, kurse, loading, fetch, result, errorLog, batched>>

SetKurse ==
    /\ pc = "setKurse"
    /\ kurse' = result["getKurse"]
    /\ pc' = "setAnmeldungen"
    /\ anmeldungen' = ArrayAfterSort(anmeldungen)
    /\ Rendered(loading, dozenten, teilnehmer, raeume, kurse', anmeldungen)
    /\ UNCHANGED <<dozenten, teilnehmer, raeume, loading, fetch, result, errorLog, batched>>

SetAnmeldungen ==
    /\ pc = "setAnmeldungen"
    /\ anmeldungen' = ArrayAfterSort(result["getAnmeldungen"])
    /\ pc' = "finally"
    /\ Rendered(loading, dozenten, teilnehmer, raeume, kurse, result["getAnmeldungen"])
    /\ UNCHANGED <<dozenten, teilnehmer, raeume, kurse, loading, fetch, result,
                   errorLog, batched>>

\* catch (e) { console.error('Failed to load stats:', e) }
Catch ==
    /\ pc = "await" /\ PromiseAll(fetch) = "rejected"
    /\ errorLog' = Append(errorLog, "Failed to load stats:")
    /\ pc' = AfterCatch
    /\ UNCHANGED <<dozenten, teilnehmer, raeume, kurse, anmeldungen, loading,
                   fetch, result, batched, now, vm, view>>

\* finally { setLoading(false) }
Finally ==
    /\ pc = "finally"
    /\ loading' = FALSE
    /\ pc' = "done"
    /\ anmeldungen' = ArrayAfterSort(anmeldungen)
    /\ Rendered(loading', dozenten, teilnehmer, raeume, kurse, anmeldungen)
    /\ UNCHANGED <<dozenten, teilnehmer, raeume, kurse, fetch, result, errorLog, batched>>

Next ==
    \/ Effect
    \/ \E f \in Fetches : FetchResolve(f)
    \/ \E f \in Fetches : FetchReject(f)
    \/ SuccessBatched
    \/ SetDozenten
    \/ SetTeilnehmer
    \/ SetRaeume
    \/ SetKurse
    \/ SetAnmeldungen
    \/ Catch
    \/ Finally

Spec == Init /\ [][Next]_vars

\* The continuation of loadStats is a microtask: once Promise.all has settled
\* it runs, and it runs to its end.
Continuation ==
    \/ SuccessBatched \/ SetDozenten \/ SetTeilnehmer \/ SetRaeume \/ SetKurse
    \/ SetAnmeldungen \/ Catch \/ Finally

LiveSpec == Init /\ [][Next]_vars /\ WF_vars(Continuation)

----------------------------------------------------------------------------
(* Claims on the data loader *)

Slots == <<dozenten, teilnehmer, raeume, kurse, anmeldungen>>

Fetched ==
    <<result["getDozenten"], result["getTeilnehmer"], result["getRaeume"],
      result["getKurse"], result["getAnmeldungen"]>>

SomeRejected == \E f \in Fetches : fetch[f] = "rejected"

AllResolved == \A f \in Fetches : fetch[f] = "resolved"

\* C1: loadStats is all-or-nothing. Once a fetch has rejected, no slot is ever
\* updated: all five keep their initial empty collection, also those whose own
\* fetch resolved, and when loadStats has finished the error has been logged
\* once. When all five resolved and loadStats has finished, every slot holds
\* the collection its fetch delivered and nothing was logged.
C1_AllOrNothing ==
    /\ SomeRejected => Slots = <<<<>>, <<>>, <<>>, <<>>, <<>>>>
    /\ (SomeRejected /\ pc = "done") => Len(errorLog) = 1
    /\ (AllResolved /\ pc = "done") => (Slots = Fetched /\ errorLog = <<>>)

C1_Witness ==
    /\ pc = "done"
    /\ SomeRejected
    /\ \E f \in Fetches : fetch[f] = "resolved" /\ result[f] # <<>>
    /\ Slots = <<<<>>, <<>>, <<>>, <<>>, <<>>>>
    /\ Len(errorLog) = 1

\* C2: loading starts true; it only ever changes from true to false, so it
\* changes at most once and is never set back; when loadStats has finished it
\* is false; once the batched fetch has settled (all five resolved, or one
\* rejected) it does become false; and a fetch that was issued is never
\* issued again.
C2_LoadingOnce ==
    /\ [](pc = "mounted" => loading)
    /\ [](pc = "done" => ~loading)
    /\ [][(loading' # loading) => (loading /\ ~loading')]_vars
    /\ [][\A f \in Fetches : fetch[f] # "idle" => fetch'[f] \in {fetch[f], "resolved", "rejected"}]_vars
    /\ [][\A f \in Fetches : fetch[f] \in {"resolved", "rejected"} => fetch'[f] = fetch[f]]_vars
    /\ ((SomeRejected \/ AllResolved) ~> ~loading)

C2_Witness ==
    /\ pc = "done" /\ ~loading /\ SomeRejected /\ Len(errorLog) = 1

\* C9: while loading is true every data-derived value on screen is a loading
\* placeholder and no fetched data is displayed, the list of recent
\* registrations included.
IsPlaceholder(x) == DOMAIN x = {"ph"}

C9_LoadingShowsNoData ==
    loading =>
        /\ \A k \in DOMAIN view \ {"recent"} : IsPlaceholder(view[k])
        /\ view.recent = <<>>

----------------------------------------------------------------------------
(* The render of a loaded dashboard, for the claims on the derived values.  *)
(* The initial states are those right after the commit of a successful     *)
(* load: the slots hold the fetched collections, loading is false, and the *)
(* component body is about to run; vm and view are still those of the      *)
(* first render.                                                           *)

Loaded(ts, ks, as, n) ==
    /\ dozenten = <<>> /\ raeume = <<>>
    /\ teilnehmer = ts /\ kurse = ks /\ anmeldungen = as
    /\ loading = FALSE
    /\ pc = "render"
    /\ fetch = [f \in Fetches |-> "resolved"]
    /\ result = [f \in Fetches |->
                    CASE f = "getTeilnehmer" -> ts
                      [] f = "getKurse" -> ks
                      [] f = "getAnmeldungen" -> as
                      [] OTHER -> <<>>]
    /\ errorLog = <<>>
    /\ batched = TRUE
    /\ now = n
    /\ vm = FirstVm(n)
    /\ view = FirstView(n)

\* The component body runs (lines 82-342).
Render ==
    /\ pc = "render"
    /\ anmeldungen' = ArrayAfterSort(anmeldungen)
    /\ Rendered(loading, dozenten, teilnehmer, raeume, kurse, anmeldungen)
    /\ pc' = "done"
    /\ UNCHANGED <<dozenten, teilnehmer, raeume, kurse, loading, fetch, result,
                   errorLog, batched>>

At(y, m, d, h) == [year |-> y, month |-> m, date |-> d, hours |-> h]

Alphabet == {"/", "a", "b"}

Urls == SeqsUpTo(Alphabet, MaxUrlLen)

Ids == SeqsUpTo({"a", "b"}, MaxIdLen) \ {<<>>}

\* Collections of at most n records of S with pairwise different record ids
DistinctSeqs(S, n) ==
    {s \in SeqsUpTo(S, n) :
        \A i, j \in DOMAIN s : i # j => s[i].record_id # s[j].record_id}

(* Courses around a turn of the year, seen at several times of day *)
KursDates == {<<>>, <<2023, 12, 31>>, <<2024, 1, 1>>, <<2024, 1, 1, 12>>, <<2024, 1, 2>>}

KursNows == {At(2023, 11, 31, 12), At(2024, 0, 1, 0), At(2024, 0, 1, 12), At(2024, 0, 2, 9)}

InitKurse ==
    \E k \in 0..MaxKurse : \E f \in [1..k -> KursDates \X KursDates] : \E n \in KursNows :
        Loaded(<<>>, [i \in 1..k |-> Kurs(IdOf(i), "Yoga", <<10>>, f[i][1], f[i][2])], <<>>, n)

SpecKurse == InitKurse /\ [][Render]_vars

(* Registrations with every kind of bezahlt value *)
PaidValues == {"undefined", "false", "0", "true", "yes"}

InitZahlung ==
    \E k \in 0..MaxAnmZahlung : \E f \in [1..k -> PaidValues] :
        Loaded(<<>>, <<>>, [i \in 1..k |-> Anmeldung(IdOf(i), <<>>, <<>>, <<>>, f[i])],
               LoaderNow)

SpecZahlung == InitZahlung /\ [][Render]_vars

(* Courses with prices, and registrations that refer to courses *)
UmsatzKurse == {Kurs(id, "Yoga", p, <<>>, <<>>) : id \in Ids, p \in {<<>>, <<10>>, <<20>>}}

InitUmsatz ==
    \E ks \in DistinctSeqs(UmsatzKurse, MaxKurse) :
    \E k \in 0..MaxAnmUmsatz : \E f \in [1..k -> {"false", "true", "yes"} \X Urls] :
        Loaded(<<>>, ks, [i \in 1..k |-> Anmeldung(IdOf(i), <<>>, f[i][2], <<>>, f[i][1])],
               LoaderNow)

SpecUmsatz == InitUmsatz /\ [][Render]_vars

(* Every day of two years, one of them a leap year *)
MonatYears == {2023, 2024}

MonatNows ==
    {n \in {At(y, m, d, 9) : y \in MonatYears, m \in 0..11, d \in 1..31} :
        n.date <= DaysInMonth(n.year, n.month)}

MonatDates == {<<>>} \cup {<<y, m, 15>> : y \in {2022, 2023, 2024}, m \in 1..12}

InitMonat ==
    \E n \in MonatNows : \E k \in 0..MaxAnmMonat : \E f \in [1..k -> MonatDates] :
        Loaded(<<>>, <<>>, [i \in 1..k |-> Anmeldung(IdOf(i), <<>>, <<>>, f[i], "true")], n)

SpecMonat == InitMonat /\ [][Render]_vars

(* Registrations dated before and after the epoch, or not at all *)
RecentDates == {<<>>, <<1969, 12, 31>>, <<2024, 1, 1>>, <<2024, 1, 2>>}

InitRecent ==
    \E k \in 0..MaxAnmRecent : \E f \in [1..k -> RecentDates] :
        Loaded(<<>>, <<>>, [i \in 1..k |-> Anmeldung(IdOf(i), <<>>, <<>>, f[i], "true")],
               LoaderNow)

SpecRecent == InitRecent /\ [][Render]_vars

(* One registration whose participant or course reference is any URL *)
RefTeilnehmer == {Person(id, nm) : id \in Ids, nm \in {Undefined, "Ann", "Bob"}}

RefKurse == {Kurs(id, t, <<>>, <<>>, <<>>) : id \in Ids, t \in {Undefined, "Yoga", "Judo"}}

InitRef ==
    \/ \E ts \in DistinctSeqs(RefTeilnehmer, MaxRef) : \E u \in Urls :
          Loaded(ts, <<>>, <<Anmeldung(IdOf(1), u, <<>>, <<>>, "false")>>, LoaderNow)
    \/ \E ks \in DistinctSeqs(RefKurse, MaxRef) : \E u \in Urls :
          Loaded(<<>>, ks, <<Anmeldung(IdOf(1), <<>>, u, <<>>, "false")>>, LoaderNow)

SpecRef == InitRef /\ [][Render]_vars

----------------------------------------------------------------------------
(* Claims on the derived values.  Dates are compared here as calendar      *)
(* tuples <<year, month, day, hour>>, in lexicographic order.              *)

Civil(s) == <<s[1], s[2], s[3], IF Len(s) > 3 THEN s[4] ELSE 0>>

LexLess(a, b) == \E i \in 1..4 : a[i] < b[i] /\ \A j \in 1..(i - 1) : a[j] = b[j]

\* Today, truncated to the start of the day
TodayCivil == <<now.year, now.month + 1, now.date, 0>>

Among(x, list) == \E j \in DOMAIN list : list[j] = x

\* C3: a course without start date is neither active nor upcoming; a course
\* is active exactly when its start is not strictly after today and (it has
\* no end or its end is not strictly before today); it is upcoming exactly
\* when its start is strictly after today; no course is both; and the two
\* lists hold courses of the collection only.
C3_Classification ==
    pc = "done" =>
        /\ \A i \in DOMAIN kurse :
            LET k == kurse[i]
                s == k.fields.startdatum
                e == k.fields.enddatum
                aktiv == Among(k, vm.aktiveKurse)
                kommend == Among(k, vm.kommendKurse)
            IN  /\ s = <<>> => (~aktiv /\ ~kommend)
                /\ aktiv <=> /\ s # <<>>
                             /\ ~LexLess(TodayCivil, Civil(s))
                             /\ (e = <<>> \/ ~LexLess(Civil(e), TodayCivil))
                /\ kommend <=> (s # <<>> /\ LexLess(TodayCivil, Civil(s)))
                /\ ~(aktiv /\ kommend)
        /\ \A j \in DOMAIN vm.aktiveKurse : Among(vm.aktiveKurse[j], kurse)
        /\ \A j \in DOMAIN vm.kommendKurse : Among(vm.kommendKurse[j], kurse)

\* A course that starts today without end and a course that ends today are
\* both active, at a time of day after midnight.
C3_Witness ==
    /\ pc = "done" /\ now.hours > 0 /\ Len(kurse) >= 2
    /\ Len(kurse[1].fields.startdatum) = 3
    /\ Civil(kurse[1].fields.startdatum) = TodayCivil
    /\ kurse[1].fields.enddatum = <<>>
    /\ Among(kurse[1], vm.aktiveKurse) /\ ~Among(kurse[1], vm.kommendKurse)
    /\ kurse[2].fields.startdatum # <<>> /\ kurse[2].fields.enddatum # <<>>
    /\ Civil(kurse[2].fields.enddatum) = TodayCivil
    /\ Among(kurse[2], vm.aktiveKurse)

\* The price the claims give a registration: that of the course whose id is
\* the text after the last '/' of the reference; 0 without reference, without
\* such a course, or without price.
TrailingId(url) ==
    CHOOSE t \in {SubSeq(url, k, Len(url)) : k \in 1..(Len(url) + 1)} :
        /\ \A i \in DOMAIN t : t[i] # "/"
        /\ (Len(t) = Len(url) \/ url[Len(url) - Len(t)] = "/")

ResolvedPreis(a, ks) ==
    IF a.fields.kurs = <<>> THEN 0
    ELSE LET hits == {i \in DOMAIN ks : ks[i].record_id = TrailingId(a.fields.kurs)}
         IN  IF hits = {} THEN 0
             ELSE LET i == CHOOSE i \in hits : TRUE
                  IN  IF ks[i].fields.preis = <<>> THEN 0 ELSE ks[i].fields.preis[1]

RECURSIVE SumOver(_, _)
SumOver(as, ks) ==
    IF as = <<>> THEN 0 ELSE ResolvedPreis(Head(as), ks) + SumOver(Tail(as), ks)

\* C4: the revenue is the sum, over the registrations the revenue counts as
\* paid, of the price of the course the reference resolves to; a reference
\* that is absent or names the id of no course contributes 0, as does a
\* course without price.
C4_Revenue ==
    pc = "done" =>
        vm.gesamtEinnahmen =
            SumOver(SelectSeq(anmeldungen, LAMBDA a : a.fields.bezahlt \in {"true", "yes"}),
                    kurse)

\* C10: only the registrations counted in bezahltCount contribute to the
\* revenue; so the revenue is 0 when bezahltCount is 0.
C10_PaidAgree ==
    pc = "done" =>
        /\ vm.gesamtEinnahmen =
              SumPreis(SelectSeq(anmeldungen, LAMBDA a : a.fields.bezahlt = "true"), kurse)
        /\ vm.bezahltCount = 0 => vm.gesamtEinnahmen = 0

\* C6: bezahltCount counts the registrations whose flag is exactly true,
\* offenCount those whose flag is falsy; the two add up to the number of
\* registrations exactly when every flag is true or falsy, and to less
\* otherwise.
C6_PaymentCounts ==
    pc = "done" =>
        LET flag(i) == anmeldungen[i].fields.bezahlt
            exact == {i \in DOMAIN anmeldungen : flag(i) = "true"}
            falsy == {i \in DOMAIN anmeldungen : flag(i) \in {"undefined", "false", "0"}}
        IN  /\ vm.bezahltCount = Cardinality(exact)
            /\ vm.offenCount = Cardinality(falsy)
            /\ (vm.bezahltCount + vm.offenCount = Len(anmeldungen))
                  <=> (exact \cup falsy = DOMAIN anmeldungen)
            /\ (exact \cup falsy # DOMAIN anmeldungen)
                  => vm.bezahltCount + vm.offenCount < Len(anmeldungen)

\* A registration with a truthy flag that is not true is in neither count.
C6_Witness ==
    /\ pc = "done"
    /\ \E i \in DOMAIN anmeldungen : anmeldungen[i].fields.bezahlt = "yes"
    /\ vm.bezahltCount > 0 /\ vm.offenCount > 0
    /\ vm.bezahltCount + vm.offenCount < Len(anmeldungen)

\* The calendar month i months before month m of year y
MonthsBefore(y, m, i) ==
    [year |-> (12 * y + m - i) \div 12, month |-> (12 * y + m - i) % 12]

\* C5: on every day the histogram has 6 buckets; the bucket i months back
\* (oldest first) stands for the calendar month i months before the current
\* one and counts the registrations dated in that month of that year; the
\* six months are distinct.
C5_Histogram ==
    pc = "done" =>
        /\ Len(vm.monthlyData) = 6
        /\ \A j \in 1..6 :
            LET t == MonthsBefore(now.year, now.month, 6 - j)
                dated == {i \in DOMAIN anmeldungen :
                            /\ anmeldungen[i].fields.anmeldedatum # <<>>
                            /\ anmeldungen[i].fields.anmeldedatum[1] = t.year
                            /\ anmeldungen[i].fields.anmeldedatum[2] = t.month + 1}
            IN  /\ vm.monthlyData[j].monat = MonthLabel(t.month)
                /\ vm.monthlyData[j].anmeldungen = Cardinality(dated)
        /\ \A j, k \in 1..6 : j # k => vm.monthlyData[j].monat # vm.monthlyData[k].monat

\* The order the spec gives the sort: a missing date counts as the epoch.
KeyOrEpoch(a) ==
    IF a.fields.anmeldedatum = <<>> THEN <<1970, 1, 1, 0>>
    ELSE Civil(a.fields.anmeldedatum)

\* The order of C7 as stated: a missing date is earlier than any date.
Earlier(a, b) ==
    \/ a.fields.anmeldedatum = <<>> /\ b.fields.anmeldedatum # <<>>
    \/ /\ a.fields.anmeldedatum # <<>> /\ b.fields.anmeldedatum # <<>>
       /\ LexLess(Civil(a.fields.anmeldedatum), Civil(b.fields.anmeldedatum))

RecentShape ==
    LET r == vm.recentAnmeldungen
    IN  /\ Len(r) = IF Len(anmeldungen) < 5 THEN Len(anmeldungen) ELSE 5
        /\ \A i \in DOMAIN r : Among(r[i], anmeldungen)
        /\ \A i, j \in DOMAIN r : i # j => r[i] # r[j]
        /\ anmeldungen = result["getAnmeldungen"]

\* C7 as stated: min(5, n) registrations, sorted by date descending, none
\* left out that is later than one kept, a missing date after every dated
\* registration, and the fetched collection in its original order.
C7_RecentMissingLast ==
    pc = "done" =>
        LET r == vm.recentAnmeldungen
        IN  /\ RecentShape
            /\ \A i, j \in DOMAIN r : i < j => ~Earlier(r[i], r[j])
            /\ \A k \in DOMAIN anmeldungen : \A i \in DOMAIN r :
                  ~Among(anmeldungen[k], r) => ~Earlier(r[i], anmeldungen[k])

\* C7 as amended: the same, with a missing date counting as the epoch
\* (1970-01-01T00:00): after every registration dated later than the epoch,
\* before every registration dated earlier.
C7_RecentEpochSentinel ==
    pc = "done" =>
        LET r == vm.recentAnmeldungen
        IN  /\ RecentShape
            /\ \A i, j \in DOMAIN r : i < j => ~LexLess(KeyOrEpoch(r[i]), KeyOrEpoch(r[j]))
            /\ \A k \in DOMAIN anmeldungen : \A i \in DOMAIN r :
                  ~Among(anmeldungen[k], r)
                      => ~LexLess(KeyOrEpoch(r[i]), KeyOrEpoch(anmeldungen[k]))

\* More than five registrations, not in sorted order, one without date kept
\* behind a dated one and another one left out.
C7_Witness ==
    /\ pc = "done"
    /\ Len(anmeldungen) > 5 /\ Len(vm.recentAnmeldungen) = 5
    /\ vm.recentAnmeldungen # SubSeq(anmeldungen, 1, 5)
    /\ vm.recentAnmeldungen[5].fields.anmeldedatum = <<>>
    /\ vm.recentAnmeldungen[1].fields.anmeldedatum # <<>>
    /\ \E k \in DOMAIN anmeldungen : ~Among(anmeldungen[k], vm.recentAnmeldungen)

\* What the claims say a reference resolves to in a collection, the display
\* text being the field `text` of the record: the placeholder without
\* reference or without record of that id, else the text, or (with orDash)
\* the placeholder in place of a text that is undefined.
Resolved(coll, url, text, orDash) ==
    IF url = <<>> THEN EmDash
    ELSE LET hits == {i \in DOMAIN coll : coll[i].record_id = TrailingId(url)}
         IN  IF hits = {} THEN EmDash
             ELSE LET found == coll[CHOOSE i \in hits : TRUE].fields[text]
                  IN  IF orDash /\ found = Undefined THEN EmDash ELSE found

\* C8 as stated: the placeholder when the reference is absent or its last
\* segment is the id of no record, otherwise the name (title) of that record.
C8_ResolutionAsIs ==
    (pc = "done" /\ Len(view.recent) = 1) =>
        /\ view.recent[1].name =
              Resolved(teilnehmer, anmeldungen[1].fields.teilnehmer, "name", FALSE)
        /\ view.recent[1].titel =
              Resolved(kurse, anmeldungen[1].fields.kurs, "titel", FALSE)

\* C8 as amended: as above, and the placeholder also when the record found
\* has no name (title).
C8_ResolutionOrPlaceholder ==
    (pc = "done" /\ Len(view.recent) = 1) =>
        /\ view.recent[1].name =
              Resolved(teilnehmer, anmeldungen[1].fields.teilnehmer, "name", TRUE)
        /\ view.recent[1].titel =
              Resolved(kurse, anmeldungen[1].fields.kurs, "titel", TRUE)

\* A reference with a '/' whose last segment is the id of the second
\* participant, whose name is shown.
C8_Witness ==
    /\ pc = "done" /\ Len(view.recent) = 1 /\ Len(teilnehmer) = 2
    /\ Among("/", anmeldungen[1].fields.teilnehmer)
    /\ view.recent[1].name = teilnehmer[2].fields.name
    /\ view.recent[1].name \in {"Ann", "Bob"}
    /\ view.recent[1].titel = EmDash

====
